---- MODULE Spec2Model ----
(***************************************************************************)
(* Model of two components of evidently:                                   *)
(*   - analyzers/stattests/registry.py : the stat-test registry            *)
(*     (register_stattest, _get_default_stattest, get_stattest)            *)
(*   - features/trigger_words_present_feature.py : TriggerWordsPresent     *)
(* Python strings that are scanned character by character are sequences of *)
(* one-character strings; identifiers (names, callables) are strings.      *)
(***************************************************************************)
EXTENDS Naturals, Sequences, FiniteSets

\* ------------------------------------------------------------------ bounds
MaxRegs == 2      \* number of register_stattest calls in one run
MaxData == 4      \* values in the reference and the current series together
MaxText == 3      \* characters of text in one column, over all its cells
MaxRows == 2      \* rows of a column

VARIABLES
    registered_stat_tests,       \* _registered_stat_tests: name -> (feature type -> StatTest)
    registered_stat_test_funcs,  \* _registered_stat_test_funcs: func -> name
    log,                         \* history: the tests passed to register_stattest, in order
    ret,                         \* the most recent registry call, its arguments and outcome
    words_list,                  \* TriggerWordsPresent.words_list
    lemmatisize,                 \* TriggerWordsPresent.lemmatisize
    data,                        \* the column handed to the last generate_feature call
    feature,                     \* the column the last generate_feature call returned
    fop                          \* the most recent call on the feature object

vars == <<registered_stat_tests, registered_stat_test_funcs, log, ret,
          words_list, lemmatisize, data, feature, fop>>

regVars  == <<registered_stat_tests, registered_stat_test_funcs, log, ret>>
featVars == <<words_list, lemmatisize, data, feature, fop>>

Range(s) == {s[i] : i \in 1..Len(s)}

\* ------------------------------------------------------------ registry.py
FeatureTypes == {"num", "cat"}
RequestTypes == FeatureTypes \cup {"txt"}
Names == {"A", "B"}
Funcs == {"f", "g"}
Callables == Funcs \cup {"h"}
SelectorNames == Names \cup {"C"}
Labels == {"x", "y", "z"}

StatTest(n, d, f, a) ==
    [name |-> n, display_name |-> d, func |-> f, allowed_feature_types |-> a]

\* the value standing for "no StatTest" in a failed outcome
NoTest == StatTest("", "", "", {})

\* stattests.ks_stat_test, stattests.chi_stat_test, stattests.z_stat_test
ks_stat_test  == StatTest("ks", "K-S p_value", "_ks_stat_test", {"num"})
chi_stat_test == StatTest("chisquare", "chi-square p_value", "_chi_stat_test", {"cat"})
z_stat_test   == StatTest("z", "Z-test p_value", "_z_stat_test", {"cat"})

\* the tests a caller registers
Tests == {StatTest(n, "test", f, a) : n \in Names, f \in Funcs, a \in SUBSET FeatureTypes}

\* tests registered while the default policy is exercised: they reuse the
\* names and functions of the built-in tests
ShadowTests == {StatTest("ks", "shadow", "f", {"num", "cat"}),
                StatTest("chisquare", "shadow", "_z_stat_test", {"cat"}),
                StatTest("z", "shadow", "_ks_stat_test", {})}

SeriesUpTo(n) == UNION {[1..k -> Labels] : k \in 0..n}

\* selectors: None | StatTest | callable | str | anything else
NoneSel        == [kind |-> "none", s |-> "", t |-> NoTest]
StatTestSel(t) == [kind |-> "stattest", s |-> "", t |-> t]
CallableSel(f) == [kind |-> "callable", s |-> f, t |-> NoTest]
StrSel(n)      == [kind |-> "str", s |-> n, t |-> NoTest]
OtherSel       == [kind |-> "other", s |-> "int", t |-> NoTest]

PassThroughTests == {ks_stat_test, StatTest("A", "test", "f", {"num"})}

Selectors == {NoneSel, OtherSel}
             \cup {StatTestSel(t) : t \in PassThroughTests}
             \cup {CallableSel(f) : f \in Callables}
             \cup {StrSel(n) : n \in SelectorNames}

\* outcomes of get_stattest
Ok(t)                       == [kind |-> "ok", test |-> t, listed |-> {}]
ValueError                  == [kind |-> "ValueError", test |-> NoTest, listed |-> {}]
StatTestNotFoundError(keys) == [kind |-> "StatTestNotFoundError", test |-> NoTest, listed |-> keys]
StatTestInvalidFeatureTypeError(keys) ==
    [kind |-> "StatTestInvalidFeatureTypeError", test |-> NoTest, listed |-> keys]
NoOutcome                   == [kind |-> "none", test |-> NoTest, listed |-> {}]

CustomDisplayName(f) == "custom function '" \o f \o "'"

\* register_forward, had it used setdefault: a name already present keeps
\* its mapping
register_forward_setdefault(fwd, t) ==
    [n \in DOMAIN fwd \cup {t.name} |->
        IF n \in DOMAIN fwd THEN fwd[n] ELSE [ft \in t.allowed_feature_types |-> t]]

\* register_stattest: the two dictionary assignments
register_forward(fwd, t) ==
    [n \in DOMAIN fwd \cup {t.name} |->
        IF n = t.name THEN [ft \in t.allowed_feature_types |-> t] ELSE fwd[n]]

register_reverse(rev, t) ==
    [f \in DOMAIN rev \cup {t.func} |-> IF f = t.func THEN t.name ELSE rev[f]]

\* get_default_stattest, had it compared with >= 2
get_default_stattest_from_two(reference_data, current_data, feature_type) ==
    IF feature_type = "num" THEN Ok(ks_stat_test)
    ELSE IF feature_type = "cat" THEN
        LET labels == Range(reference_data) \cup Range(current_data)
        IN  IF Cardinality(labels) >= 2 THEN Ok(chi_stat_test) ELSE Ok(z_stat_test)
    ELSE ValueError

get_default_stattest(reference_data, current_data, feature_type) ==
    IF feature_type = "num" THEN Ok(ks_stat_test)
    ELSE IF feature_type = "cat" THEN
        LET labels == Range(reference_data) \cup Range(current_data)
        IN  IF Cardinality(labels) > 2 THEN Ok(chi_stat_test) ELSE Ok(z_stat_test)
    ELSE ValueError

\* lookup_by_name, had it tested "if not funcs": an empty mapping counts as
\* no mapping
lookup_by_name_falsy(fwd, stattest_name, feature_type) ==
    IF stattest_name \notin DOMAIN fwd \/ DOMAIN fwd[stattest_name] = {}
    THEN StatTestNotFoundError(DOMAIN fwd)
    ELSE LET funcs == fwd[stattest_name]
         IN  IF feature_type \notin DOMAIN funcs
             THEN StatTestInvalidFeatureTypeError(DOMAIN fwd[stattest_name])
             ELSE Ok(funcs[feature_type])

lookup_by_name(fwd, stattest_name, feature_type) ==
    IF stattest_name \notin DOMAIN fwd THEN StatTestNotFoundError(DOMAIN fwd)
    ELSE LET funcs == fwd[stattest_name]
         IN  IF feature_type \notin DOMAIN funcs
             THEN StatTestInvalidFeatureTypeError(DOMAIN fwd[stattest_name])
             ELSE Ok(funcs[feature_type])

\* get_stattest, had it validated the feature type of an ad-hoc callable
get_stattest_typed_adhoc(fwd, rev, reference_data, current_data, feature_type, stattest_func) ==
    IF stattest_func.kind = "none"
        THEN get_default_stattest(reference_data, current_data, feature_type)
    ELSE IF stattest_func.kind = "stattest" THEN Ok(stattest_func.t)
    ELSE IF stattest_func.kind = "callable" /\ stattest_func.s \notin DOMAIN rev
        THEN IF feature_type \in FeatureTypes
             THEN Ok(StatTest("", CustomDisplayName(stattest_func.s), stattest_func.s, {}))
             ELSE ValueError
    ELSE IF stattest_func.kind = "callable"
        THEN lookup_by_name(fwd, rev[stattest_func.s], feature_type)
    ELSE IF stattest_func.kind = "str"
        THEN lookup_by_name(fwd, stattest_func.s, feature_type)
    ELSE ValueError

get_stattest(fwd, rev, reference_data, current_data, feature_type, stattest_func) ==
    IF stattest_func.kind = "none"
        THEN get_default_stattest(reference_data, current_data, feature_type)
    ELSE IF stattest_func.kind = "stattest" THEN Ok(stattest_func.t)
    ELSE IF stattest_func.kind = "callable" /\ stattest_func.s \notin DOMAIN rev
        THEN Ok(StatTest("", CustomDisplayName(stattest_func.s), stattest_func.s, {}))
    ELSE IF stattest_func.kind = "callable"
        THEN lookup_by_name(fwd, rev[stattest_func.s], feature_type)
    ELSE IF stattest_func.kind = "str"
        THEN lookup_by_name(fwd, stattest_func.s, feature_type)
    ELSE ValueError

Call(op, ref, cur, ft, sel, out) ==
    [op |-> op, reference_data |-> ref, current_data |-> cur,
     feature_type |-> ft, stattest_func |-> sel, out |-> out]

InitRegistry ==
    /\ registered_stat_tests = [n \in {} |-> n]
    /\ registered_stat_test_funcs = [f \in {} |-> f]
    /\ log = <<>>
    /\ ret = Call("init", <<>>, <<>>, "", NoneSel, NoOutcome)

\* The caller is single-threaded and synchronous: a call starts only after
\* the previous call's outcome has been taken (Return).
Register(t) ==
    /\ ret.op # "resolve"
    /\ Len(log) < MaxRegs
    /\ registered_stat_tests' = register_forward(registered_stat_tests, t)
    /\ registered_stat_test_funcs' = register_reverse(registered_stat_test_funcs, t)
    /\ log' = Append(log, t)
    /\ ret' = Call("register", <<>>, <<>>, "", StatTestSel(t), NoOutcome)
    /\ UNCHANGED featVars

Resolve(ref, cur, ft, sel) ==
    /\ ret.op # "resolve"
    /\ ret' = Call("resolve", ref, cur, ft, sel,
                   get_stattest(registered_stat_tests, registered_stat_test_funcs,
                                ref, cur, ft, sel))
    /\ UNCHANGED <<registered_stat_tests, registered_stat_test_funcs, log>>
    /\ UNCHANGED featVars

\* the caller takes the outcome of get_stattest
Return ==
    /\ ret.op = "resolve"
    /\ ret' = Call("idle", <<>>, <<>>, "", NoneSel, NoOutcome)
    /\ UNCHANGED <<registered_stat_tests, registered_stat_test_funcs, log>>
    /\ UNCHANGED featVars

\* ------------------------------------------- trigger_words_present_feature.py
Alphabet == {"a", "S", " ", "!"}
Cell(s) == [null |-> FALSE, s |-> s]
NoneCell == [null |-> TRUE, s |-> <<>>]

\* the cells holding k characters (None holds none)
CellsOfLen(k) ==
    {Cell(s) : s \in [1..k -> Alphabet]} \cup (IF k = 0 THEN {NoneCell} ELSE {})

\* the columns of at most `rows` cells holding at most `budget` characters
RECURSIVE ColumnsOf(_, _)
ColumnsOf(rows, budget) ==
    IF rows = 0 THEN {<<>>}
    ELSE {<<>>} \cup UNION {{<<c>> \o rest : c \in CellsOfLen(k),
                                             rest \in ColumnsOf(rows - 1, budget - k)}
                            : k \in 0..budget}

Columns == ColumnsOf(MaxRows, MaxText)
WordLists == SUBSET {<<"a">>, <<"s">>, <<"S">>, <<"a", "s">>}

\* the characters the pattern [^A-Za-z0-9 ]+ leaves in place
KeptChars == {"a", "s", "S", " "}

\* re.sub("[^A-Za-z0-9 ]+", "", s)
re_sub(s) == SelectSeq(s, LAMBDA c : c \in KeptChars)

\* str.split(): maximal runs of non-blank characters, in order
RECURSIVE split_from(_, _, _, _)
split_from(s, i, cur, acc) ==
    IF i > Len(s) THEN (IF cur = <<>> THEN acc ELSE Append(acc, cur))
    ELSE IF s[i] = " "
        THEN split_from(s, i + 1, <<>>, IF cur = <<>> THEN acc ELSE Append(acc, cur))
        ELSE split_from(s, i + 1, Append(cur, s[i]), acc)

split(s) == split_from(s, 1, <<>>, <<>>)

lower_char(c) == IF c = "S" THEN "s" ELSE c
lower(w) == [i \in 1..Len(w) |-> lower_char(w[i])]

\* WordNetLemmatizer.lemmatize on this vocabulary: a plural loses its final s
lemmatize(w) ==
    IF Len(w) >= 2 /\ w[Len(w)] = "s" THEN SubSeq(w, 1, Len(w) - 1) ELSE w

\* the for loop, had "return 0" been indented into it: only the token at i
\* is looked at
scan_words_first_only(words, i, wl, lem) ==
    IF i > Len(words) THEN 0
    ELSE LET word_ == lower(words[i])
             word  == IF lem THEN lemmatize(word_) ELSE word_
         IN  IF word \in wl THEN 1 ELSE 0

\* the for loop of listed_words_present, from token i on
RECURSIVE scan_words(_, _, _, _)
scan_words(words, i, wl, lem) ==
    IF i > Len(words) THEN 0
    ELSE LET word_ == lower(words[i])
             word  == IF lem THEN lemmatize(word_) ELSE word_
         IN  IF word \in wl THEN 1 ELSE scan_words(words, i + 1, wl, lem)

listed_words_present(cell, wl, lem) ==
    IF cell.null THEN 0
    ELSE scan_words(split(re_sub(cell.s)), 1, wl, lem)

generate_feature(column, wl, lem) ==
    [i \in 1..Len(column) |-> listed_words_present(column[i], wl, lem)]

InitFeature ==
    /\ words_list = {}
    /\ lemmatisize = TRUE
    /\ data = <<>>
    /\ feature = <<>>
    /\ fop = "init"

Construct(wl, lem) ==
    /\ fop # "generate"
    /\ words_list' = wl
    /\ lemmatisize' = lem
    /\ data' = <<>>
    /\ feature' = <<>>
    /\ fop' = "construct"
    /\ UNCHANGED regVars

Generate(column) ==
    /\ fop # "generate"
    /\ data' = column
    /\ feature' = generate_feature(column, words_list, lemmatisize)
    /\ fop' = "generate"
    /\ UNCHANGED <<words_list, lemmatisize>>
    /\ UNCHANGED regVars

\* the caller takes the frame generate_feature returned
ReturnFeature ==
    /\ fop = "generate"
    /\ data' = <<>>
    /\ feature' = <<>>
    /\ fop' = "idle"
    /\ UNCHANGED <<words_list, lemmatisize>>
    /\ UNCHANGED regVars

\* --------------------------------------------------------- specifications
Init == InitRegistry /\ InitFeature

\* the registry under every selector kind
Next ==
    \/ \E t \in Tests : Register(t)
    \/ ret.op # "resolve" /\ \E ft \in RequestTypes, sel \in Selectors :
          Resolve(<<>>, <<>>, ft, sel)
    \/ Return

Spec == Init /\ [][Next]_vars

\* the default policy under every pair of series
NextDefault ==
    \/ \E t \in ShadowTests : Register(t)
    \/ ret.op # "resolve" /\ \E ref \in SeriesUpTo(MaxData) :
          \E cur \in SeriesUpTo(MaxData - Len(ref)), ft \in RequestTypes :
              Resolve(ref, cur, ft, NoneSel)
    \/ Return

SpecDefault == Init /\ [][NextDefault]_vars

\* the trigger-word feature
NextFeature ==
    \/ \E wl \in WordLists, lem \in BOOLEAN : Construct(wl, lem)
    \/ fop # "generate" /\ \E column \in Columns : Generate(column)
    \/ ReturnFeature

SpecFeature == Init /\ [][NextFeature]_vars

\* ------------------------------------------------- properties: the registry
\* what the history of register_stattest calls says, independently of the maps
Passed == Range(log)
PassedNames == {T.name : T \in Passed}
LastIndex(n) ==
    CHOOSE i \in 1..Len(log) : log[i].name = n /\ \A j \in (i + 1)..Len(log) : log[j].name # n
LastRegistered(n) == log[LastIndex(n)]

ResolvedBy(kind) == ret.op = "resolve" /\ ret.stattest_func.kind = kind

\* C1 as stated: resolving T.name under a type T allows returns T, for every
\* test T that was ever passed to register_stattest.
C1_EveryPassedTestResolves ==
    ResolvedBy("str") =>
        \A T \in Passed :
            (T.name = ret.stattest_func.s /\ ret.feature_type \in T.allowed_feature_types)
                => ret.out = Ok(T)

\* C1 amended: resolving a name under a type that the test most recently
\* registered under that name allows returns that most recent test.
C1_LatestTestResolves ==
    ResolvedBy("str") =>
        \A n \in PassedNames :
            (n = ret.stattest_func.s
                /\ ret.feature_type \in LastRegistered(n).allowed_feature_types)
                => ret.out = Ok(LastRegistered(n))

C1_Witness ==
    /\ ResolvedBy("str")
    /\ Len(log) = 2 /\ log[1].name = log[2].name /\ log[1] # log[2]
    /\ ret.stattest_func.s = log[2].name
    /\ ret.feature_type \in log[1].allowed_feature_types \cap log[2].allowed_feature_types
    /\ ret.out = Ok(log[2])

\* C2: for every registered test T and every feature type, resolving the
\* callable T.func has the same outcome (same StatTest, or same error kind)
\* as resolving the string T.name.
C2_FuncResolvesAsName ==
    ResolvedBy("callable") =>
        \A T \in Passed :
            T.func = ret.stattest_func.s =>
                LET byName == get_stattest(registered_stat_tests, registered_stat_test_funcs,
                                           ret.reference_data, ret.current_data,
                                           ret.feature_type, StrSel(T.name))
                IN  ret.out.kind = byName.kind /\ ret.out.test = byName.test

\* C3: the reverse index maps the func of every registered StatTest (the test
\* currently registered under each name) to exactly that test's name.
C3_ReverseIndexNamesOwner ==
    \A n \in PassedNames :
        /\ LastRegistered(n).func \in DOMAIN registered_stat_test_funcs
        /\ registered_stat_test_funcs[LastRegistered(n).func] = n

\* C4: a register call writes its test at (name, t) for each allowed t and
\* leaves every other (name, type) entry of the forward map in place with the
\* value it had, so no entry is ever removed.
C4_RegisterKeepsOtherEntries ==
    [][(ret'.op = "register" /\ log' # log) =>
        LET t == log'[Len(log')]
        IN  /\ \A ft \in t.allowed_feature_types :
                /\ t.name \in DOMAIN registered_stat_tests'
                /\ ft \in DOMAIN registered_stat_tests'[t.name]
                /\ registered_stat_tests'[t.name][ft] = t
            /\ \A n \in DOMAIN registered_stat_tests :
                \A ft \in DOMAIN registered_stat_tests[n] :
                    (n # t.name \/ ft \notin t.allowed_feature_types) =>
                        /\ n \in DOMAIN registered_stat_tests'
                        /\ ft \in DOMAIN registered_stat_tests'[n]
                        /\ registered_stat_tests'[n][ft] = registered_stat_tests[n][ft]
    ]_vars

\* three positions of the two series, one after the other, hold three
\* different labels
ThreeDistinctLabels(ref, cur) ==
    LET both == ref \o cur
    IN  \E i, j, k \in 1..Len(both) :
            both[i] # both[j] /\ both[i] # both[k] /\ both[j] # both[k]

\* C5: with no selector the outcome is decided by feature_type and the two
\* series alone, whatever the registry holds: "num" gives the K-S test, "cat"
\* gives chi-square when the series hold more than 2 distinct labels and the
\* Z-test otherwise, any other type fails with ValueError.
C5_DefaultPolicy ==
    ResolvedBy("none") =>
        ret.out = IF ret.feature_type = "num" THEN Ok(ks_stat_test)
                  ELSE IF ret.feature_type = "cat" THEN
                      IF ThreeDistinctLabels(ret.reference_data, ret.current_data)
                      THEN Ok(chi_stat_test) ELSE Ok(z_stat_test)
                  ELSE ValueError

C5_Witness ==
    /\ ResolvedBy("none")
    /\ ret.feature_type = "cat"
    /\ ret.reference_data = <<"x", "y">> /\ ret.current_data = <<"x", "z">>
    /\ ret.out = Ok(chi_stat_test)
    /\ "chisquare" \in DOMAIN registered_stat_tests
    /\ "_ks_stat_test" \in DOMAIN registered_stat_test_funcs

\* C6: a string selector n under type t fails with StatTestNotFoundError,
\* listing the names registered so far, exactly when n was never registered;
\* fails with StatTestInvalidFeatureTypeError, listing the types valid for n,
\* exactly when n is registered without an entry for t (an empty
\* allowed_feature_types included); and otherwise returns the stored test.
C6_StringSelectorOutcome ==
    ResolvedBy("str") =>
        LET n == ret.stattest_func.s
            t == ret.feature_type
        IN  /\ DOMAIN registered_stat_tests = PassedNames
            /\ IF n \notin PassedNames
               THEN ret.out = StatTestNotFoundError(PassedNames)
               ELSE /\ DOMAIN registered_stat_tests[n] = LastRegistered(n).allowed_feature_types
                    /\ IF t \notin DOMAIN registered_stat_tests[n]
                       THEN ret.out = StatTestInvalidFeatureTypeError(
                                          LastRegistered(n).allowed_feature_types)
                       ELSE ret.out = Ok(LastRegistered(n))

C6_Witness ==
    /\ ResolvedBy("str")
    /\ Len(log) = 2 /\ log[1].name # log[2].name
    /\ ret.stattest_func.s = log[2].name
    /\ log[2].allowed_feature_types = {}
    /\ ret.out = StatTestInvalidFeatureTypeError({})

\* C7: resolving a callable that is not in the reverse map succeeds under
\* every feature type with a StatTest of empty name, that func and no allowed
\* types, changes neither registry map, and would be ad-hoc again afterwards.
C7_AdHocCallable ==
    [][(ret'.op = "resolve" /\ ret'.stattest_func.kind = "callable"
            /\ ret'.stattest_func.s \notin DOMAIN registered_stat_test_funcs) =>
        /\ ret'.out.kind = "ok"
        /\ ret'.out.test.name = ""
        /\ ret'.out.test.func = ret'.stattest_func.s
        /\ ret'.out.test.allowed_feature_types = {}
        /\ registered_stat_tests' = registered_stat_tests
        /\ registered_stat_test_funcs' = registered_stat_test_funcs
        /\ get_stattest(registered_stat_tests', registered_stat_test_funcs', <<>>, <<>>,
                        ret'.feature_type, ret'.stattest_func) = ret'.out
    ]_vars

C7_Witness ==
    /\ ResolvedBy("callable")
    /\ ret.stattest_func.s \notin DOMAIN registered_stat_test_funcs
    /\ ret.feature_type = "txt"
    /\ registered_stat_test_funcs # <<>>
    /\ ret.out = Ok(StatTest("", "custom function 'g'", "g", {}))

\* C10: whenever resolving a callable f returns a StatTest, that StatTest's
\* func is f.
C10_ResolvedFuncIsSelector ==
    (ResolvedBy("callable") /\ ret.out.kind = "ok") =>
        ret.out.test.func = ret.stattest_func.s

\* ------------------------------------------ properties: the trigger words
\* the tokens of a text, stated by position: the maximal runs of non-blank
\* characters of the text with every character outside [A-Za-z0-9 ] removed
TokensOf(s) ==
    LET t == re_sub(s)
    IN  {SubSeq(t, i, j) : <<i, j>> \in
            {p \in (1..Len(t)) \X (1..Len(t)) :
                /\ p[1] <= p[2]
                /\ \A k \in p[1]..p[2] : t[k] # " "
                /\ (p[1] = 1 \/ t[p[1] - 1] = " ")
                /\ (p[2] = Len(t) \/ t[p[2] + 1] = " ")}}

Normalised(w, lem) == IF lem THEN lemmatize(lower(w)) ELSE lower(w)

SameUpToCase(v, w) == lower(v) = lower(w)

\* C8: a row with a token that, once normalised, equals an entry of
\* words_list up to letter case yields 1, however that entry is capitalised.
C8_CaseInsensitiveMembership ==
    fop = "generate" =>
        \A i \in 1..Len(data) :
            (~data[i].null /\ \E w \in TokensOf(data[i].s), e \in words_list :
                                  SameUpToCase(Normalised(w, lemmatisize), e))
                => feature[i] = 1

\* C9: generate_feature returns a column as long as its input whose row i is
\* 0 for a None cell, 1 when some token of the cell is, once normalised, in
\* words_list, and 0 when none is; each row depends on its own cell only.
C9_GenerateFeature ==
    fop = "generate" =>
        /\ Len(feature) = Len(data)
        /\ \A i \in 1..Len(data) :
            feature[i] = IF data[i].null THEN 0
                         ELSE IF \E w \in TokensOf(data[i].s) :
                                     Normalised(w, lemmatisize) \in words_list
                              THEN 1 ELSE 0

C9_Witness ==
    /\ fop = "generate"
    /\ lemmatisize /\ words_list = {<<"a">>}
    /\ data = <<NoneCell, Cell(<<"S", " ", "a">>)>>
    /\ feature = <<0, 1>>

====
